---- MODULE Spec2Model ----
(***************************************************************************)
(* Identity reconciliation service (src/src/service.ts).                   *)
(*                                                                         *)
(* The Contact table is a set of rows; identify() runs reconcile() inside  *)
(* one serializable transaction and retries once on a unique-constraint    *)
(* violation.  Every findMany of the code orders by createdAt only, so     *)
(* rows with equal createdAt come back in an order the store chooses: the  *)
(* model draws that order nondeterministically.                            *)
(***************************************************************************)
EXTENDS Integers, Sequences, FiniteSets, TLC

\* ---------------------------------------------------------------- bounds
MaxRows == 3
MaxClock == 3

\* Rows an operator may soft-delete.
MaxDeleted == 1

\* A rejected or rolled-back insert still takes an id from the sequence:
\* the ids handed out may exceed the rows kept by one.
MaxIds == MaxRows + 1

\* Values are opaque to the code (only compared for equality), so a call
\* that brings an unseen value brings the first unused one of these lists.
\* The code treats the two columns alike, so three values of one column
\* and two of the other cover a chain of three groups either way round.
EmailList == <<"a", "b", "c">>
PhoneList == <<"1", "2">>

\* Overlapping calls are drawn from two values of each column.
ConcEmailList == SubSeq(EmailList, 1, 2)

\* ------------------------------------------------------- column values
NULL == "NULL"
NoId == 0
NoTime == 0
NoError == "none"
P2002 == "P2002"
TypeError == "TypeError"
SerializationFailure == "SerializationFailure"

VARIABLES
  contacts,   \* the Contact table: a set of rows
  seqId,      \* next value of the SERIAL id sequence
  clock,      \* the store's current timestamp
  req,        \* arguments of the last identify call
  resp,       \* what the last identify call returned (or threw)
  prev,       \* the Contact table as it was before the last identify call
  call,       \* an identify call in flight while other calls run
  http        \* the body and the answer of the last POST /identify

vars == <<contacts, seqId, clock, req, resp, prev, call, http>>

\* ------------------------------------------------------------- helpers
Live(cs) == {c \in cs : c.deletedAt = NoTime}

Includes(s, x) == \E i \in 1..Len(s) : s[i] = x

Range(s) == {s[i] : i \in 1..Len(s)}

\* Faulty variant: the rows come back newest first.
RECURSIVE orderByCreatedAtDesc(_)
orderByCreatedAtDesc(S) ==
  IF S = {} THEN {<<>>}
  ELSE UNION {{<<c>> \o s : s \in orderByCreatedAtDesc(S \ {c})} :
                c \in {c \in S : \A d \in S : c.createdAt >= d.createdAt}}

\* findMany(... orderBy: { createdAt: "asc" }): every enumeration of the
\* result set in non-decreasing createdAt; ties come in any order.
RECURSIVE orderByCreatedAt(_)
orderByCreatedAt(S) ==
  IF S = {} THEN {<<>>}
  ELSE UNION {{<<c>> \o s : s \in orderByCreatedAt(S \ {c})} :
                c \in {c \in S : \A d \in S : c.createdAt <= d.createdAt}}

\* uq_contact_identity on (email, phoneNumber, linkedId); a NULL component
\* never collides (PostgreSQL's default NULLS DISTINCT).  The index covers
\* soft-deleted rows too.
UniqueViolation(cs, row) ==
  /\ row.email # NULL
  /\ row.phoneNumber # NULL
  /\ row.linkedId # NoId
  /\ \E r \in cs : /\ r.id # row.id
                   /\ r.email = row.email
                   /\ r.phoneNumber = row.phoneNumber
                   /\ r.linkedId = row.linkedId

\* tx.contact.create: id from the sequence, createdAt now.  (updatedAt is
\* kept by the client library and read by no code; it is left out.)
\* The sequence advances even when the insert is rejected.
contactCreate(tx, now, email, phoneNumber, linkedId, linkPrecedence) ==
  LET row == [id |-> tx.seqId, email |-> email, phoneNumber |-> phoneNumber,
              linkedId |-> linkedId, linkPrecedence |-> linkPrecedence,
              createdAt |-> now, deletedAt |-> NoTime]
  IN IF tx.error # NoError THEN tx
     ELSE IF UniqueViolation(tx.contacts, row)
          THEN [tx EXCEPT !.error = P2002, !.seqId = @ + 1]
          ELSE [contacts |-> tx.contacts \cup {row},
                seqId |-> tx.seqId + 1,
                error |-> NoError]

\* The row a successful contactCreate on tx added.
createdRow(tx, tx2) == CHOOSE c \in tx2.contacts : c.id = tx.seqId

\* ------------------------------------------------------ response builder
\* Faulty variant: secondaries' values are appended without the includes() test.
buildResponseNoDedup(primary, secondaries) ==
  LET present(s) == SelectSeq(s, LAMBDA v : v # NULL)
  IN [primaryContactId |-> primary.id,
      emails |-> present(<<primary.email>>
                         \o [i \in 1..Len(secondaries) |-> secondaries[i].email]),
      phoneNumbers |-> present(<<primary.phoneNumber>>
                               \o [i \in 1..Len(secondaries) |-> secondaries[i].phoneNumber]),
      secondaryContactIds |-> [i \in 1..Len(secondaries) |-> secondaries[i].id]]

RECURSIVE buildLoop(_, _, _, _)
buildLoop(emails, phoneNumbers, secondaries, i) ==
  IF i > Len(secondaries)
  THEN [emails |-> emails, phoneNumbers |-> phoneNumbers]
  ELSE LET s == secondaries[i]
           emails2 == IF s.email # NULL /\ ~Includes(emails, s.email)
                      THEN Append(emails, s.email) ELSE emails
           phones2 == IF s.phoneNumber # NULL /\ ~Includes(phoneNumbers, s.phoneNumber)
                      THEN Append(phoneNumbers, s.phoneNumber) ELSE phoneNumbers
       IN buildLoop(emails2, phones2, secondaries, i + 1)

buildResponse(primary, secondaries) ==
  LET emails0 == IF primary.email # NULL THEN <<primary.email>> ELSE <<>>
      phones0 == IF primary.phoneNumber # NULL THEN <<primary.phoneNumber>> ELSE <<>>
      lists == buildLoop(emails0, phones0, secondaries, 1)
  IN [primaryContactId |-> primary.id,
      emails |-> lists.emails,
      phoneNumbers |-> lists.phoneNumbers,
      secondaryContactIds |-> [i \in 1..Len(secondaries) |-> secondaries[i].id]]

NoContact == [primaryContactId |-> NoId, emails |-> <<>>,
              phoneNumbers |-> <<>>, secondaryContactIds |-> <<>>]

Returned(contact) == [ok |-> TRUE, error |-> NoError, contact |-> contact]

Thrown(error) == [ok |-> FALSE, error |-> error, contact |-> NoContact]

\* --------------------------------------------------------- reconcile
\* Faulty variant: the phone is left out of the match.
matchingByEmailOnly(cs, email, phoneNumber) ==
  {c \in Live(cs) : email # NULL /\ c.email = email}

\* Step 1: live rows matching email OR phoneNumber.  An absent argument
\* contributes no disjunct; with no disjunct at all the OR filter is
\* undefined and every live row matches.
matchingContacts(cs, email, phoneNumber) ==
  {c \in Live(cs) :
     \/ email = NULL /\ phoneNumber = NULL
     \/ email # NULL /\ c.email = email
     \/ phoneNumber # NULL /\ c.phoneNumber = phoneNumber}

\* Faulty variant: every match counts as a root of its own.
primaryIdsUnresolved(matching) == {c.id : c \in matching}

\* Step 3: the root primary id of every match.
primaryIds(matching) ==
  {IF c.linkPrecedence = "primary" THEN c.id ELSE c.linkedId : c \in matching}

\* The rows findMany({ id: { in: primaryIds }, deletedAt: null }) selects.
primaryRows(cs, ids) == {c \in Live(cs) : c.id \in ids}

\* Faulty variant: the newest primary is taken as the root.
newestPrimaryOf(primaries) == primaries[Len(primaries)]

\* primaries[0]
rootPrimaryOf(primaries) == primaries[1]

\* Faulty variant: the demotion sets linkedId and forgets linkPrecedence.
demoteKeepsPrecedence(tx, demoted, rootPrimary) ==
  IF tx.error # NoError THEN tx
  ELSE LET old == CHOOSE c \in tx.contacts : c.id = demoted.id
       IN [tx EXCEPT !.contacts = (@ \ {old}) \cup {[old EXCEPT !.linkedId = rootPrimary.id]}]

\* Faulty variant: the loser's row is removed instead of demoted.
demoteDeletes(tx, demoted, rootPrimary) ==
  IF tx.error # NoError THEN tx
  ELSE [tx EXCEPT !.contacts = {c \in @ : c.id # demoted.id}]

\* Faulty variant: the demotion sets linkPrecedence and forgets linkedId.
demoteKeepsLink(tx, demoted, rootPrimary) ==
  IF tx.error # NoError THEN tx
  ELSE LET old == CHOOSE c \in tx.contacts : c.id = demoted.id
       IN [tx EXCEPT !.contacts = (@ \ {old})
                                    \cup {[old EXCEPT !.linkPrecedence = "secondary"]}]

\* tx.contact.update({ where: { id: demoted.id }, data: { linkedId, linkPrecedence } })
demote(tx, demoted, rootPrimary) ==
  IF tx.error # NoError THEN tx
  ELSE LET old == CHOOSE c \in tx.contacts : c.id = demoted.id
           new == [old EXCEPT !.linkedId = rootPrimary.id,
                              !.linkPrecedence = "secondary"]
       IN IF UniqueViolation(tx.contacts, new)
          THEN [tx EXCEPT !.error = P2002]
          ELSE [tx EXCEPT !.contacts = (@ \ {old}) \cup {new}]

\* Faulty variant: the children of the demoted primary are left where they are.
relinkNothing(tx, demoted, rootPrimary) == tx

\* Faulty variant: soft-deleted children are re-linked too.
relinkDeletedToo(tx, demoted, rootPrimary) ==
  IF tx.error # NoError THEN tx
  ELSE LET hit == {c \in tx.contacts : c.linkedId = demoted.id}
           moved == {[c EXCEPT !.linkedId = rootPrimary.id] : c \in hit}
           after == (tx.contacts \ hit) \cup moved
       IN IF \E m \in moved : UniqueViolation(after, m)
          THEN [tx EXCEPT !.error = P2002]
          ELSE [tx EXCEPT !.contacts = after]

\* tx.contact.updateMany({ where: { linkedId: demoted.id, deletedAt: null },
\*                         data: { linkedId: rootPrimary.id } })
relinkChildren(tx, demoted, rootPrimary) ==
  IF tx.error # NoError THEN tx
  ELSE LET hit == {c \in Live(tx.contacts) : c.linkedId = demoted.id}
           moved == {[c EXCEPT !.linkedId = rootPrimary.id] : c \in hit}
           after == (tx.contacts \ hit) \cup moved
       IN IF \E m \in moved : UniqueViolation(after, m)
          THEN [tx EXCEPT !.error = P2002]
          ELSE [tx EXCEPT !.contacts = after]

\* Faulty variant: each loser is linked to the primary read before it.
RECURSIVE mergeLoopChained(_, _, _, _)
mergeLoopChained(tx, primaries, rootPrimary, i) ==
  IF i > Len(primaries) \/ tx.error # NoError THEN tx
  ELSE mergeLoopChained(
         relinkChildren(demote(tx, primaries[i], primaries[i - 1]),
                        primaries[i], primaries[i - 1]),
         primaries, rootPrimary, i + 1)

\* Step 4: for (let i = 1; i < primaries.length; i++) { update; updateMany }
RECURSIVE mergeLoop(_, _, _, _)
mergeLoop(tx, primaries, rootPrimary, i) ==
  IF i > Len(primaries) \/ tx.error # NoError THEN tx
  ELSE mergeLoop(
         relinkChildren(demote(tx, primaries[i], rootPrimary),
                        primaries[i], rootPrimary),
         primaries, rootPrimary, i + 1)

\* Faulty variant: the re-read returns the root primary alone.
groupRowsPrimaryOnly(cs, rootPrimary) ==
  {c \in Live(cs) : c.id = rootPrimary.id}

\* Step 5: the rows of the re-read group.
groupRows(cs, rootPrimary) ==
  {c \in Live(cs) : c.id = rootPrimary.id \/ c.linkedId = rootPrimary.id}

\* Faulty variant: a new email is never noticed.
neverNewEmail(email, allLinked) == FALSE

hasNewEmail(email, allLinked) ==
  email # NULL /\ email \notin ({c.email : c \in Range(allLinked)} \ {NULL})

\* Faulty variant: a new phone is never noticed.
neverNewPhone(phoneNumber, allLinked) == FALSE

\* Faulty variant: a present phone always counts as new.
alwaysNewPhone(phoneNumber, allLinked) == phoneNumber # NULL

hasNewPhone(phoneNumber, allLinked) ==
  phoneNumber # NULL /\ phoneNumber \notin ({c.phoneNumber : c \in Range(allLinked)} \ {NULL})

exactDuplicate(email, phoneNumber, allLinked) ==
  \E c \in Range(allLinked) :
     /\ email = NULL \/ c.email = email
     /\ phoneNumber = NULL \/ c.phoneNumber = phoneNumber

\* Faulty variant: the primary is not filtered out of the secondaries.
secondariesUnfiltered(allLinked, rootPrimary) == allLinked

\* allLinked.filter((c) => c.id !== rootPrimary.id)
secondariesOf(allLinked, rootPrimary) ==
  SelectSeq(allLinked, LAMBDA c : c.id # rootPrimary.id)

\* Faulty variant: a secondary is inserted whatever the group holds.
attachAlways(tx, now, email, phoneNumber, rootPrimary, allLinked) ==
  LET tx2 == contactCreate(tx, now, email, phoneNumber, rootPrimary.id, "secondary")
      allLinked2 == IF tx2.error = NoError
                    THEN Append(allLinked, createdRow(tx, tx2))
                    ELSE allLinked
  IN [tx |-> tx2,
      resp |-> IF tx2.error # NoError THEN Thrown(tx2.error)
               ELSE Returned(buildResponse(rootPrimary,
                                           SelectSeq(allLinked2, LAMBDA c : c.id # rootPrimary.id)))]

\* Steps 5 and 6 for one read order of the group.
attachAndRespond(tx, now, email, phoneNumber, rootPrimary, allLinked) ==
  LET insert == /\ hasNewEmail(email, allLinked) \/ hasNewPhone(phoneNumber, allLinked)
                /\ ~exactDuplicate(email, phoneNumber, allLinked)
      tx2 == IF insert
             THEN contactCreate(tx, now, email, phoneNumber, rootPrimary.id, "secondary")
             ELSE tx
      allLinked2 == IF insert /\ tx2.error = NoError
                    THEN Append(allLinked, createdRow(tx, tx2))
                    ELSE allLinked
      secondaries == secondariesOf(allLinked2, rootPrimary)
  IN [tx |-> tx2,
      resp |-> IF tx2.error # NoError THEN Thrown(tx2.error)
               ELSE Returned(buildResponse(rootPrimary, secondaries))]

\* Steps 3 to 6 for one read order of the primaries.
mergeAndAttach(tx, now, email, phoneNumber, primaries) ==
  IF Len(primaries) = 0
  THEN {[tx |-> [tx EXCEPT !.error = TypeError], resp |-> Thrown(TypeError)]}
  ELSE LET rootPrimary == rootPrimaryOf(primaries)
           tx1 == mergeLoop(tx, primaries, rootPrimary, 2)
       IN IF tx1.error # NoError
          THEN {[tx |-> tx1, resp |-> Thrown(tx1.error)]}
          ELSE {attachAndRespond(tx1, now, email, phoneNumber, rootPrimary, allLinked) :
                  allLinked \in orderByCreatedAt(groupRows(tx1.contacts, rootPrimary))}

\* Faulty variant: the first row of a customer is created as a secondary.
createPrimaryAsSecondary(tx, now, email, phoneNumber) ==
  LET tx2 == contactCreate(tx, now, email, phoneNumber, NoId, "secondary")
  IN [tx |-> tx2,
      resp |-> IF tx2.error # NoError THEN Thrown(tx2.error)
               ELSE Returned(buildResponse(createdRow(tx, tx2), <<>>))]

\* Faulty variant: the create of step 2 runs twice.
createPrimaryTwice(tx, now, email, phoneNumber) ==
  LET tx2 == contactCreate(tx, now, email, phoneNumber, NoId, "primary")
      tx3 == contactCreate(tx2, now, email, phoneNumber, NoId, "primary")
  IN [tx |-> tx3,
      resp |-> IF tx3.error # NoError THEN Thrown(tx3.error)
               ELSE Returned(buildResponse(createdRow(tx, tx2), <<>>))]

\* Step 2: no match, create a primary.
createPrimary(tx, now, email, phoneNumber) ==
  LET tx2 == contactCreate(tx, now, email, phoneNumber, NoId, "primary")
  IN [tx |-> tx2,
      resp |-> IF tx2.error # NoError THEN Thrown(tx2.error)
               ELSE Returned(buildResponse(createdRow(tx, tx2), <<>>))]

\* One attempt: every result reconcile can produce on table cs.
reconcile(cs, sid, now, email, phoneNumber) ==
  LET tx == [contacts |-> cs, seqId |-> sid, error |-> NoError]
      matching == matchingContacts(cs, email, phoneNumber)
  IN IF matching = {}
     THEN {createPrimary(tx, now, email, phoneNumber)}
     ELSE UNION {mergeAndAttach(tx, now, email, phoneNumber, primaries) :
                   primaries \in orderByCreatedAt(primaryRows(cs, primaryIds(matching)))}

\* prisma.$transaction: commit the attempt's writes, or roll all of them back.
commit(cs, r) ==
  [contacts |-> IF r.tx.error = NoError THEN r.tx.contacts ELSE cs,
   seqId |-> r.tx.seqId,
   resp |-> r.resp]

\* identify(): one attempt, and one more when the first throws P2002.
identify(cs, sid, now, email, phoneNumber) ==
  UNION {IF r.tx.error = P2002
         THEN {commit(cs, r2) : r2 \in reconcile(cs, r.tx.seqId, now, email, phoneNumber)}
         ELSE {commit(cs, r)} :
           r \in reconcile(cs, sid, now, email, phoneNumber)}

\* ------------------------- the older identify (bitespeed-identity/src)
\* buildResponse of the older service: the same lists under the field name
\* primaryContatctId.
buildResponseOld(primary, secondaries) ==
  LET emails0 == IF primary.email # NULL THEN <<primary.email>> ELSE <<>>
      phones0 == IF primary.phoneNumber # NULL THEN <<primary.phoneNumber>> ELSE <<>>
      lists == buildLoop(emails0, phones0, secondaries, 1)
  IN [primaryContatctId |-> primary.id,
      emails |-> lists.emails,
      phoneNumbers |-> lists.phoneNumbers,
      secondaryContactIds |-> [i \in 1..Len(secondaries) |-> secondaries[i].id]]

NoContactOld == [primaryContatctId |-> NoId, emails |-> <<>>,
                 phoneNumbers |-> <<>>, secondaryContactIds |-> <<>>]

ThrownOld(error) == [ok |-> FALSE, error |-> error, contact |-> NoContactOld]

\* Array.prototype.sort with (a, b) => a.createdAt - b.createdAt is stable:
\* c goes behind every element that is not newer than it.
insertByCreatedAt(sorted, c) ==
  LET k == Cardinality({i \in 1..Len(sorted) : sorted[i].createdAt <= c.createdAt})
  IN SubSeq(sorted, 1, k) \o <<c>> \o SubSeq(sorted, k + 1, Len(sorted))

\* Array.from(primaryMap.values()).sort(...): the primaries in the order
\* they were read (a Map keeps insertion order), sorted by createdAt.
RECURSIVE sortedPrimaries(_)
sortedPrimaries(primaries) ==
  IF primaries = <<>> THEN <<>>
  ELSE insertByCreatedAt(sortedPrimaries(SubSeq(primaries, 1, Len(primaries) - 1)),
                         primaries[Len(primaries)])

\* Steps 5 and 6 of the older identify for one read order of the group.
attachAndRespondOld(tx, now, email, phoneNumber, rootPrimary, allLinked) ==
  LET insert == /\ hasNewEmail(email, allLinked) \/ hasNewPhone(phoneNumber, allLinked)
                /\ ~exactDuplicate(email, phoneNumber, allLinked)
      tx2 == IF insert
             THEN contactCreate(tx, now, email, phoneNumber, rootPrimary.id, "secondary")
             ELSE tx
      allLinked2 == IF insert /\ tx2.error = NoError
                    THEN Append(allLinked, createdRow(tx, tx2))
                    ELSE allLinked
      secondaries == secondariesOf(allLinked2, rootPrimary)
  IN [tx |-> tx2,
      resp |-> IF tx2.error # NoError THEN ThrownOld(tx2.error)
               ELSE Returned(buildResponseOld(rootPrimary, secondaries))]

\* Faulty variant: step 4 of the older identify is skipped.
mergeAndAttachOldNoMerge(tx, now, email, phoneNumber, primaries) ==
  IF Len(primaries) = 0
  THEN {[tx |-> [tx EXCEPT !.error = TypeError], resp |-> ThrownOld(TypeError)]}
  ELSE {attachAndRespondOld(tx, now, email, phoneNumber, primaries[1], allLinked) :
          allLinked \in orderByCreatedAt(groupRows(tx.contacts, primaries[1]))}

\* Steps 3 to 6 of the older identify for one read order of the primaries.
mergeAndAttachOld(tx, now, email, phoneNumber, primaries) ==
  LET sorted == sortedPrimaries(primaries)
  IN IF Len(sorted) = 0
     THEN {[tx |-> [tx EXCEPT !.error = TypeError], resp |-> ThrownOld(TypeError)]}
     ELSE LET rootPrimary == sorted[1]
              tx1 == mergeLoop(tx, sorted, rootPrimary, 2)
          IN IF tx1.error # NoError
             THEN {[tx |-> tx1, resp |-> ThrownOld(tx1.error)]}
             ELSE {attachAndRespondOld(tx1, now, email, phoneNumber, rootPrimary, allLinked) :
                     allLinked \in orderByCreatedAt(groupRows(tx1.contacts, rootPrimary))}

\* Step 2 of the older identify.
createPrimaryOld(tx, now, email, phoneNumber) ==
  LET tx2 == contactCreate(tx, now, email, phoneNumber, NoId, "primary")
  IN [tx |-> tx2,
      resp |-> IF tx2.error # NoError THEN ThrownOld(tx2.error)
               ELSE Returned(buildResponseOld(createdRow(tx, tx2), <<>>))]

\* The older identify: one transaction at the default isolation level, no
\* retry.  Run one call at a time, the isolation level changes nothing.
identifyOld(cs, sid, now, email, phoneNumber) ==
  LET tx == [contacts |-> cs, seqId |-> sid, error |-> NoError]
      matching == matchingContacts(cs, email, phoneNumber)
      results == IF matching = {}
                 THEN {createPrimaryOld(tx, now, email, phoneNumber)}
                 ELSE UNION {mergeAndAttachOld(tx, now, email, phoneNumber, primaries) :
                               primaries \in orderByCreatedAt(primaryRows(cs, primaryIds(matching)))}
  IN {commit(cs, r) : r \in results}

\* ------------------------------------------- the store under concurrency
\* Faulty variant: the store tracks no read of the transaction.
readsNone(cs, email, phoneNumber) == {}

\* What reconcile reads on table cs: the rows matching the request, the
\* primaries they resolve to, those primaries' children, the re-read group.
readsOf(cs, email, phoneNumber) ==
  LET matching == matchingContacts(cs, email, phoneNumber)
      roots == primaryIds(matching)
  IN matching \cup {c \in Live(cs) : c.id \in roots \/ c.linkedId \in roots}

\* Faulty variant: the transaction runs below Serializable, nothing is detected.
noConflict(cs, snapshot, email, phoneNumber) == FALSE

\* isolationLevel Serializable: a transaction that writes is aborted when a
\* transaction committed since its snapshot changed what it read.
serializationConflict(cs, snapshot, email, phoneNumber) ==
  readsOf(cs, email, phoneNumber) # readsOf(snapshot, email, phoneNumber)

\* The rows a transaction inserted or updated, given its snapshot.
writtenRows(snapshot, tx) == tx.contacts \ snapshot

\* Faulty variant: inserts reach the table, updates are lost.
insertsOnly(cs, rows) == cs \cup {r \in rows : r.id \notin {c.id : c \in cs}}

\* The table once those rows are written over its current content.
applyWrites(cs, rows) == {c \in cs : c.id \notin {r.id : r \in rows}} \cup rows

\* Faulty variant: a failed attempt leaves its writes behind.
failedKeepsWrites(cs, tx, error) ==
  [contacts |-> applyWrites(cs, tx.contacts \ cs), seqId |-> tx.seqId,
   resp |-> Thrown(error)]

\* $transaction rejects: everything is rolled back but the id sequence.
failed(cs, tx, error) ==
  [contacts |-> cs, seqId |-> tx.seqId, resp |-> Thrown(error)]

\* One attempt of identify on the snapshot it took, committing into table cs.
\* The body runs on the snapshot.  A write that collides in the unique index
\* with a row committed meanwhile is rejected, as a unique violation or as a
\* serialization failure (which of the two the store detects first is not
\* fixed).  A stale writer is aborted; a writer whose reads are untouched
\* commits, unless the store's coarse read locks abort it all the same; a
\* transaction that wrote nothing commits on its snapshot.
attemptOn(cs, snapshot, sid, now, email, phoneNumber) ==
  UNION {
    LET rows == writtenRows(snapshot, r.tx)
        after == applyWrites(cs, rows)
    IN IF r.tx.error # NoError THEN {failed(cs, r.tx, r.tx.error)}
       ELSE IF rows = {} THEN {[contacts |-> cs, seqId |-> r.tx.seqId, resp |-> r.resp]}
       ELSE IF \E row \in rows : UniqueViolation(after, row)
            THEN {failed(cs, r.tx, P2002), failed(cs, r.tx, SerializationFailure)}
       ELSE IF serializationConflict(cs, snapshot, email, phoneNumber)
            THEN {failed(cs, r.tx, SerializationFailure)}
       ELSE {[contacts |-> after, seqId |-> r.tx.seqId, resp |-> r.resp]}
            \cup (IF cs # snapshot
                  THEN {failed(cs, r.tx, SerializationFailure)} ELSE {})
    : r \in reconcile(snapshot, sid, now, email, phoneNumber)}

\* Faulty variant: a unique violation is retried as often as it occurs.
retryAlways(error, attempt) == error = P2002

\* Faulty variant: whatever the first attempt threw, one more runs.
retryAnyError(error, attempt) == attempt = 1

\* Faulty variant: the catch block rethrows every error.
neverRetry(error, attempt) == FALSE

\* catch (err): one more attempt when the first threw P2002.
retryable(error, attempt) == error = P2002 /\ attempt = 1

\* ------------------------------------------------------------- machine
NoReq == [email |-> NULL, phoneNumber |-> NULL]

NoResp == Thrown(NoError)

\* No call in flight.
IdleCall == [pc |-> "idle", email |-> NULL, phoneNumber |-> NULL,
             attempt |-> 0, snapshot |-> {}, errors |-> <<>>, resp |-> NoResp]

\* No request received: no body, no status.
NoHttp == [body |-> [email |-> [type |-> "undefined", text |-> ""],
                     phoneNumber |-> [type |-> "undefined", text |-> ""],
                     extra |-> FALSE],
           status |-> 0, error |-> "none"]

Init ==
  /\ contacts = {}
  /\ seqId = 1
  /\ clock = 1
  /\ req = NoReq
  /\ resp = NoResp
  /\ prev = {}
  /\ call = IdleCall
  /\ http = NoHttp

\* Time passes between two calls.  Only the order of timestamps matters, so
\* the clock moves on only from an instant at which some row was created.
\* (Calls in flight together run within one instant of the clock.)
Tick ==
  /\ req = NoReq
  /\ call.pc = "idle"
  /\ clock < MaxClock
  /\ \E c \in contacts : c.createdAt = clock
  /\ clock' = clock + 1
  /\ UNCHANGED <<contacts, seqId, req, resp, prev, call, http>>

\* POST /identify with a validated body (at least one field present), from
\* a client that sends one request at a time: identify() runs to its end.
Identify(email, phoneNumber) ==
  /\ req = NoReq
  /\ email # NULL \/ phoneNumber # NULL
  /\ \E out \in identify(contacts, seqId, clock, email, phoneNumber) :
       /\ Cardinality(Live(out.contacts)) <= MaxRows
       /\ out.seqId <= MaxIds + 1
       /\ contacts' = out.contacts
       /\ seqId' = out.seqId
       /\ resp' = out.resp
  /\ req' = [email |-> email, phoneNumber |-> phoneNumber]
  /\ prev' = contacts
  /\ UNCHANGED <<clock, call, http>>

\* res.status(200).json(result), or next(err): the call is over.
Respond ==
  /\ req # NoReq \/ http # NoHttp
  /\ req' = NoReq
  /\ resp' = NoResp
  /\ prev' = {}
  /\ http' = NoHttp
  /\ UNCHANGED <<contacts, seqId, clock, call>>

\* The values a call may carry in one field: absent, a value some row
\* holds, or the first value of the list that no row holds yet.
Candidates(list, held) ==
  {NULL} \cup {list[i] : i \in {i \in 1..Len(list) :
                                  \/ list[i] \in held
                                  \/ \A j \in 1..(i - 1) : list[j] \in held}}

Next ==
  \/ Tick
  \/ \E email \in Candidates(EmailList, {c.email : c \in contacts}),
        phoneNumber \in Candidates(PhoneList, {c.phoneNumber : c \in contacts}) :
       Identify(email, phoneNumber)
  \/ Respond

Spec == Init /\ [][Next]_vars

\* ------------------------------------------- the multi-primary cascade
\* The requests of the cascade scenario: three unrelated customers, then
\* two requests that each join two of them.
CascadeCalls ==
  {<<"a", "111">>, <<"b", "222">>, <<"c", "333">>, <<"a", "222">>, <<"c", "111">>}

\* A client sends requests of the scenario one at a time, in any order and
\* as often as it likes.
CascadeNext ==
  \/ Tick
  \/ \E r \in CascadeCalls : Identify(r[1], r[2])
  \/ Respond

CascadeSpec == Init /\ [][CascadeNext]_vars

\* ------------------------------------------------------ POST /identify
\* JSON values of a request body: a type and, for strings and numbers, the
\* text of String(value).
Undefined == [type |-> "undefined", text |-> ""]

JsonNull == [type |-> "null", text |-> ""]

JsonString(t) == [type |-> "string", text |-> t]

JsonNumber(t) == [type |-> "number", text |-> t]

JsonBoolean == [type |-> "boolean", text |-> "true"]

\* String.prototype.trim, on the strings of the model.
trim(t) ==
  CASE t = " A " -> "A"
    [] t = " 1 " -> "1"
    [] t = "  " -> ""
    [] OTHER -> t

\* String.prototype.toLowerCase, on the strings of the model.
toLowerCase(t) == IF t = "A" THEN "a" ELSE t

\* .email(): the well-formed addresses are the values of EmailList.
isEmail(t) == \E i \in 1..Len(EmailList) : EmailList[i] = t

\* .regex(/^[+]?[\d\s\-()]+$/): of the strings of the model, the values
\* of PhoneList and the 21 digits match.
matchesPhone(t) ==
  t = "123456789012345678901" \/ \E i \in 1..Len(PhoneList) : PhoneList[i] = t

\* String.prototype.length, as far as .max(20) can tell.
tooLong(t) == t = "123456789012345678901"

\* email: z.string().trim().toLowerCase().email().max(320).nullable()
\*          .optional().transform(v => v && v.length > 0 ? v : null)
emailField(v) ==
  IF v.type \in {"undefined", "null"} THEN [ok |-> TRUE, value |-> NULL]
  ELSE IF v.type # "string" THEN [ok |-> FALSE, value |-> NULL]
  ELSE LET t == toLowerCase(trim(v.text))
       IN IF ~isEmail(t) THEN [ok |-> FALSE, value |-> NULL]
          ELSE [ok |-> TRUE, value |-> IF t # "" THEN t ELSE NULL]

\* phoneNumber: z.union([z.string(), z.number()]).nullable().optional()
\*   .transform(trimmed String(v), or null when absent or empty)
\*   .pipe(z.string().max(20).regex(...).nullable())
phoneField(v) ==
  IF v.type \notin {"undefined", "null", "string", "number"}
  THEN [ok |-> FALSE, value |-> NULL]
  ELSE LET s == IF v.type \in {"undefined", "null"} THEN "" ELSE trim(v.text)
       IN IF s = "" THEN [ok |-> TRUE, value |-> NULL]
          ELSE IF tooLong(s) \/ ~matchesPhone(s) THEN [ok |-> FALSE, value |-> NULL]
          ELSE [ok |-> TRUE, value |-> s]

\* Faulty variant: the schema without its at-least-one refinement.
schemaWithoutRefine(body) ==
  LET e == emailField(body.email)
      p == phoneField(body.phoneNumber)
  IN [success |-> ~body.extra /\ e.ok /\ p.ok,
      data |-> [email |-> e.value, phoneNumber |-> p.value]]

\* identifySchema.safeParse(req.body)
identifySchema(body) ==
  LET e == emailField(body.email)
      p == phoneField(body.phoneNumber)
  IN [success |-> /\ ~body.extra
                  /\ e.ok /\ p.ok
                  /\ e.value # NULL \/ p.value # NULL,
      data |-> [email |-> e.value, phoneNumber |-> p.value]]

\* The bodies a client may send: each field absent, null, of a wrong type,
\* malformed, in need of normalising, or one of the candidate values; with
\* or without a key the schema does not know.
Bodies(emails, phones) ==
  [email : {Undefined, JsonNull, JsonNumber("7"), JsonString(""),
            JsonString("not-an-email"), JsonString(" A ")}
           \cup {JsonString(v) : v \in emails \ {NULL}},
   phoneNumber : {Undefined, JsonNull, JsonBoolean, JsonString("  "),
                  JsonString("abc$def"), JsonString("123456789012345678901"),
                  JsonNumber("1"), JsonString(" 1 ")}
                 \cup {JsonString(v) : v \in phones \ {NULL}},
   extra : BOOLEAN]

\* router.post("/identify"): validate, then identify, then answer; an error
\* of identify goes to the error handler.
PostIdentify(body) ==
  /\ req = NoReq /\ http = NoHttp /\ call.pc = "idle"
  /\ LET parsed == identifySchema(body)
     IN IF ~parsed.success
        THEN /\ http' = [body |-> body, status |-> 400, error |-> "Validation failed"]
             /\ UNCHANGED <<contacts, seqId, clock, req, resp, prev, call>>
        ELSE /\ \E out \in identify(contacts, seqId, clock,
                                    parsed.data.email, parsed.data.phoneNumber) :
                  /\ Cardinality(Live(out.contacts)) <= MaxRows
                  /\ out.seqId <= MaxIds + 1
                  /\ contacts' = out.contacts
                  /\ seqId' = out.seqId
                  /\ resp' = out.resp
                  /\ http' = [body |-> body,
                              status |-> IF out.resp.ok THEN 200 ELSE 500,
                              error |-> IF out.resp.ok THEN "none"
                                        ELSE "Internal Server Error"]
             /\ req' = parsed.data
             /\ prev' = contacts
             /\ UNCHANGED <<clock, call>>

RouteNext ==
  \/ \E body \in Bodies(Candidates(ConcEmailList, {c.email : c \in contacts}),
                         Candidates(PhoneList, {c.phoneNumber : c \in contacts})) :
       PostIdentify(body)
  \/ Respond

RouteSpec == Init /\ [][RouteNext]_vars

\* --------------------------------------------- concurrent identify calls
\* Two calls that overlap begin on the same table; one of them commits
\* first and the other, the call in flight, then runs on a snapshot that
\* misses that commit.

\* identify(email, phoneNumber) is called: its first transaction begins.
Begin(email, phoneNumber) ==
  /\ call.pc = "idle"
  /\ email # NULL \/ phoneNumber # NULL
  /\ call' = [pc |-> "running", email |-> email, phoneNumber |-> phoneNumber,
              attempt |-> 1, snapshot |-> contacts, errors |-> <<>>,
              resp |-> NoResp]
  /\ UNCHANGED <<contacts, seqId, clock, req, resp, prev, http>>

\* Another call begins on the table the call in flight has seen, and
\* commits its writes before the call in flight gets to run.
Overtake(email, phoneNumber) ==
  /\ call.pc = "running"
  /\ call.snapshot = contacts
  /\ email # NULL \/ phoneNumber # NULL
  /\ \E out \in identify(contacts, seqId, clock, email, phoneNumber) :
       /\ out.contacts # contacts
       /\ Cardinality(Live(out.contacts)) <= MaxRows
       /\ out.seqId <= MaxIds + 1
       /\ contacts' = out.contacts
       /\ seqId' = out.seqId
  /\ UNCHANGED <<clock, req, resp, prev, call, http>>

\* The transaction of the call in flight runs reconcile and commits or
\* fails; on a retryable failure the next transaction begins.
Attempt ==
  /\ call.pc = "running"
  /\ \E out \in attemptOn(contacts, call.snapshot, seqId, clock,
                           call.email, call.phoneNumber) :
       /\ Cardinality(Live(out.contacts)) <= MaxRows
       /\ out.seqId <= MaxIds + 1
       /\ contacts' = out.contacts
       /\ seqId' = out.seqId
       /\ call' =
            IF out.resp.ok
            THEN [call EXCEPT !.pc = "done", !.resp = out.resp]
            ELSE IF retryable(out.resp.error, call.attempt)
            THEN [call EXCEPT !.attempt = @ + 1, !.snapshot = contacts,
                              !.errors = Append(@, out.resp.error)]
            ELSE [call EXCEPT !.pc = "done", !.resp = out.resp,
                              !.errors = Append(@, out.resp.error)]
  /\ UNCHANGED <<clock, req, resp, prev, http>>

\* The caller has its answer.
Finish ==
  /\ call.pc = "done"
  /\ call' = IdleCall
  /\ UNCHANGED <<contacts, seqId, clock, req, resp, prev, http>>

ConcNext ==
  \/ Tick
  \/ \E email \in Candidates(ConcEmailList, {c.email : c \in contacts}),
        phoneNumber \in Candidates(PhoneList, {c.phoneNumber : c \in contacts}) :
       Begin(email, phoneNumber)
  \/ \E email \in Candidates(ConcEmailList, {c.email : c \in contacts}),
        phoneNumber \in Candidates(PhoneList, {c.phoneNumber : c \in contacts}) :
       Overtake(email, phoneNumber)
  \/ Attempt
  \/ Finish

ConcSpec == Init /\ [][ConcNext]_vars

\* ------------------------------------------------- soft deletion
\* An operator soft-deletes a live row (the service itself never does).
SoftDelete(id) ==
  /\ call.pc = "idle"
  /\ req = NoReq
  /\ Cardinality(contacts \ Live(contacts)) < MaxDeleted
  /\ \E c \in Live(contacts) :
       /\ c.id = id
       /\ contacts' = (contacts \ {c}) \cup {[c EXCEPT !.deletedAt = clock]}
  /\ UNCHANGED <<seqId, clock, req, resp, prev, call, http>>

\* Calls, overlapping or not, on a table an operator soft-deletes rows of;
\* all within one instant of the clock.
OpsNext ==
  \/ \E email \in Candidates(ConcEmailList, {c.email : c \in contacts}),
        phoneNumber \in Candidates(PhoneList, {c.phoneNumber : c \in contacts}) :
       Begin(email, phoneNumber)
  \/ \E email \in Candidates(ConcEmailList, {c.email : c \in contacts}),
        phoneNumber \in Candidates(PhoneList, {c.phoneNumber : c \in contacts}) :
       Overtake(email, phoneNumber)
  \/ Attempt
  \/ Finish
  \/ \E id \in 1..MaxIds : SoftDelete(id)

OpsSpec == Init /\ [][OpsNext]_vars

\* A client that sends one request at a time, on a table an operator
\* soft-deletes rows of; all within one instant of the clock.
DeletedNext ==
  \/ \E email \in Candidates(ConcEmailList, {c.email : c \in contacts}),
        phoneNumber \in Candidates(PhoneList, {c.phoneNumber : c \in contacts}) :
       Identify(email, phoneNumber)
  \/ Respond
  \/ \E id \in 1..MaxIds : SoftDelete(id)

DeletedSpec == Init /\ [][DeletedNext]_vars

\* ------------------------------------------------ direct calls of the core
\* A merge of two losers of which one has a child takes one row more.
MaxCoreRows == MaxRows + 1

\* identify() called by code that has not validated its arguments: both
\* may be absent, and then every live row matches.
IdentifyCore(email, phoneNumber) ==
  /\ req = NoReq
  /\ call.pc = "idle"
  /\ \E out \in identify(contacts, seqId, clock, email, phoneNumber) :
       /\ Cardinality(Live(out.contacts)) <= MaxCoreRows
       /\ out.seqId <= MaxCoreRows + 1
       /\ contacts' = out.contacts
       /\ seqId' = out.seqId
       /\ resp' = out.resp
  /\ req' = [email |-> email, phoneNumber |-> phoneNumber]
  /\ prev' = contacts
  /\ UNCHANGED <<clock, call, http>>

\* All within one instant of the clock: the primaries a call reads come
\* back in any order.
CoreNext ==
  \/ \E email \in Candidates(ConcEmailList, {c.email : c \in contacts}),
        phoneNumber \in Candidates(PhoneList, {c.phoneNumber : c \in contacts}) :
       IdentifyCore(email, phoneNumber)
  \/ Respond

CoreSpec == Init /\ [][CoreNext]_vars

\* ------------------------------------------------ the older service
\* POST /identify of the older service, from a client that sends one
\* validated request at a time.
IdentifyOld(email, phoneNumber) ==
  /\ req = NoReq
  /\ call.pc = "idle"
  /\ email # NULL \/ phoneNumber # NULL
  /\ \E out \in identifyOld(contacts, seqId, clock, email, phoneNumber) :
       /\ Cardinality(Live(out.contacts)) <= MaxRows
       /\ out.seqId <= MaxIds + 1
       /\ contacts' = out.contacts
       /\ seqId' = out.seqId
       /\ resp' = out.resp
  /\ req' = [email |-> email, phoneNumber |-> phoneNumber]
  /\ prev' = contacts
  /\ UNCHANGED <<clock, call, http>>

\* The older service on a table an operator soft-deletes rows of.
OlderNext ==
  \/ \E email \in Candidates(ConcEmailList, {c.email : c \in contacts}),
        phoneNumber \in Candidates(PhoneList, {c.phoneNumber : c \in contacts}) :
       IdentifyOld(email, phoneNumber)
  \/ Respond
  \/ \E id \in 1..MaxIds : SoftDelete(id)

OlderSpec == Init /\ [][OlderNext]_vars

\* ------------------------------------------------- vocabulary of the claims
Row(cs, id) == CHOOSE c \in cs : c.id = id

Ids(cs) == {c.id : c \in cs}

NoDuplicates(s) == \A i, j \in 1..Len(s) : i # j => s[i] # s[j]

\* Two rows share an email or share a phone.
Shares(c, d) ==
  \/ c.email # NULL /\ c.email = d.email
  \/ c.phoneNumber # NULL /\ c.phoneNumber = d.phoneNumber

RECURSIVE Closure(_, _)
Closure(S, cs) ==
  LET T == S \cup {d \in cs : \E c \in S : Shares(c, d)}
  IN IF T = S THEN S ELSE Closure(T, cs)

\* The connected component of live row c under Shares.
Component(c) == Closure({c}, Live(contacts))

\* Where following linkedId from c ends (within fuel steps).
RECURSIVE FollowLinks(_, _)
FollowLinks(c, fuel) ==
  IF c.linkedId = NoId \/ fuel = 0 \/ c.linkedId \notin Ids(Live(contacts))
  THEN c
  ELSE FollowLinks(Row(Live(contacts), c.linkedId), fuel - 1)

\* A call has been made and its response is at hand.
Called == req # NoReq

\* Row c holds the email or the phone of the last request.
Matched(c) ==
  \/ req.email # NULL /\ c.email = req.email
  \/ req.phoneNumber # NULL /\ c.phoneNumber = req.phoneNumber

\* The live rows the last request matched in the table it found, the roots
\* they resolve to, and the rows of those roots' groups.
PrevMatches == {c \in Live(prev) : Matched(c)}

PrevRoots == {IF c.linkPrecedence = "primary" THEN c.id ELSE c.linkedId : c \in PrevMatches}

PrevGroups == {c \in Live(prev) : c.id \in PrevRoots \/ c.linkedId \in PrevRoots}

\* The rows the last call inserted.
Inserted == {c \in contacts : c.id \notin Ids(prev)}

\* The group the payload of the last call names, in the table as it is now.
PayloadGroup ==
  {c \in Live(contacts) : \/ c.id = resp.contact.primaryContactId
                          \/ c.linkedId = resp.contact.primaryContactId}

\* The values of a field over a set of rows, absent ones left out.
Values(rows, field) == {c[field] : c \in rows} \ {NULL}

\* ---------------------------------------------------------------- C1
\* C1 (single primary), as claimed: after any sequence of successful
\* identify calls from an empty store, every connected component of live rows
\* under "shares an email or a phone" holds exactly one primary, and
\* following linkedId from any live row ends at that primary.
C1_SinglePrimary ==
  \A c \in Live(contacts) :
    LET primaries == {d \in Component(c) : d.linkPrecedence = "primary"}
    IN /\ Cardinality(primaries) = 1
       /\ FollowLinks(c, Cardinality(contacts)) \in primaries

\* C1 as amended: every connected component holds at most one primary, and
\* following linkedId from any of its live rows ends at one and the same live
\* primary (which is the component's primary when it holds one).
C1_SinglePrimaryAmended ==
  \A c \in Live(contacts) :
    LET primaries == {d \in Component(c) : d.linkPrecedence = "primary"}
        root == FollowLinks(c, Cardinality(contacts))
    IN /\ Cardinality(primaries) <= 1
       /\ root.linkPrecedence = "primary"
       /\ root.linkedId = NoId
       /\ \A d \in Component(c) : FollowLinks(d, Cardinality(contacts)) = root
       /\ primaries \subseteq {root}

\* A merge has just joined two groups; the surviving primary shares a value
\* with another row, and a third row shares none with either.
C1_Witness ==
  /\ Called /\ resp.ok
  /\ Cardinality(PrevRoots) = 2
  /\ \E c \in Live(contacts) :
       /\ c.linkPrecedence = "primary"
       /\ Cardinality(Component(c)) >= 2
       /\ Component(c) # Live(contacts)

\* ---------------------------------------------------------------- C2
\* C2 (depth one): every live secondary's linkedId names a live row whose
\* precedence is primary, and no live secondary is referenced by another
\* live row's linkedId.
C2_DepthOne ==
  \A c \in Live(contacts) :
    c.linkPrecedence = "secondary" =>
      /\ \E d \in Live(contacts) : d.id = c.linkedId /\ d.linkPrecedence = "primary"
      /\ \A d \in Live(contacts) : d.linkedId # c.id

\* A merge has just demoted a primary that had a secondary of its own.
C2_Witness ==
  /\ Called /\ resp.ok
  /\ \E l \in Live(prev), k \in Live(prev) :
       /\ l.linkPrecedence = "primary"
       /\ k.linkedId = l.id
       /\ Row(contacts, l.id).linkPrecedence = "secondary"

\* ---------------------------------------------------------------- C3
\* C3 (seniority): in every group the primary's createdAt is at most the
\* createdAt of every secondary linked to it.
C3_Seniority ==
  \A c \in Live(contacts), d \in Live(contacts) :
    (c.linkPrecedence = "secondary" /\ d.id = c.linkedId) => d.createdAt <= c.createdAt

\* A merge has just demoted a primary strictly younger than the survivor.
C3_Witness ==
  /\ Called /\ resp.ok
  /\ \E l \in Live(prev) :
       /\ l.linkPrecedence = "primary"
       /\ Row(contacts, l.id).linkPrecedence = "secondary"
       /\ Row(contacts, Row(contacts, l.id).linkedId).createdAt < l.createdAt

\* ---------------------------------------------------------------- C4
\* C4 (idempotence): calling identify(e, p) again right after identify(e, p)
\* returned, the second call inserts no row, changes no row and returns a
\* payload equal to the first one's, lists in the same order.
C4_Idempotence ==
  (Called /\ resp.ok) =>
    \A again \in identify(contacts, seqId, clock, req.email, req.phoneNumber) :
      /\ again.contacts = contacts
      /\ again.resp = resp

\* ---------------------------------------------------------------- C5
\* C5 (new customer): when no live row has the request's email or phone,
\* identify inserts exactly one row with the request's email and phone,
\* precedence primary and no linkedId, changes no other row, and returns that
\* row's id with emails = [email] if present, phoneNumbers = [phone] if
\* present and no secondaryContactIds.
C5_NewCustomer ==
  (Called /\ PrevMatches = {}) =>
    /\ resp.ok
    /\ \E new \in Inserted :
         /\ contacts = prev \cup {new}
         /\ new.email = req.email
         /\ new.phoneNumber = req.phoneNumber
         /\ new.linkPrecedence = "primary"
         /\ new.linkedId = NoId
         /\ new.deletedAt = NoTime
         /\ resp.contact =
              [primaryContactId |-> new.id,
               emails |-> IF req.email # NULL THEN <<req.email>> ELSE <<>>,
               phoneNumbers |-> IF req.phoneNumber # NULL THEN <<req.phoneNumber>> ELSE <<>>,
               secondaryContactIds |-> <<>>]

\* A new customer with only a phone arrived at a store that held rows.
C5_Witness ==
  /\ Called /\ PrevMatches = {}
  /\ prev # {}
  /\ req.email = NULL

\* ---------------------------------------------------------------- C6
\* C6 (attach): when the request matches a group and carries an email or a
\* phone that no live row of that group holds, identify inserts exactly one
\* row: secondary, linked to the survivor, with exactly the email and phone
\* of the request; its id is the last of secondaryContactIds.
C6_Attach ==
  (/\ Called
   /\ PrevMatches # {}
   /\ \/ req.email # NULL /\ req.email \notin Values(PrevGroups, "email")
      \/ req.phoneNumber # NULL /\ req.phoneNumber \notin Values(PrevGroups, "phoneNumber"))
  =>
    /\ resp.ok
    /\ Cardinality(Inserted) = 1
    /\ \A new \in Inserted :
         /\ new.linkPrecedence = "secondary"
         /\ new.linkedId = resp.contact.primaryContactId
         /\ new.linkedId \in PrevRoots
         /\ new.email = req.email
         /\ new.phoneNumber = req.phoneNumber
         /\ Len(resp.contact.secondaryContactIds) >= 1
         /\ resp.contact.secondaryContactIds[Len(resp.contact.secondaryContactIds)] = new.id

\* A secondary was attached through a matched secondary, carrying a phone
\* the group already knew and an email it did not.
C6_Witness ==
  /\ Called /\ resp.ok
  /\ Cardinality(Inserted) = 1
  /\ \A c \in PrevMatches : c.linkPrecedence = "secondary"
  /\ PrevMatches # {}
  /\ req.email \notin Values(PrevGroups, "email")
  /\ req.phoneNumber \in Values(PrevGroups, "phoneNumber")

\* ---------------------------------------------------------------- C7
\* C7 (merge): when the matched rows resolve to two or more primaries, the
\* one with the smallest createdAt survives as primary; every other matched
\* primary ends secondary with linkedId = survivor; every live row that
\* pointed at a loser points at the survivor; the payload names the survivor
\* and lists every email and phone of the merged groups.
C7_Merge ==
  (Called /\ Cardinality(PrevRoots) >= 2) =>
    /\ resp.ok
    /\ resp.contact.primaryContactId \in PrevRoots
    /\ LET survivor == resp.contact.primaryContactId
           losers == PrevRoots \ {survivor}
       IN /\ \A id \in PrevRoots : Row(prev, survivor).createdAt <= Row(prev, id).createdAt
          /\ Row(contacts, survivor).linkPrecedence = "primary"
          /\ Row(contacts, survivor).linkedId = NoId
          /\ \A id \in losers :
               /\ Row(contacts, id).linkPrecedence = "secondary"
               /\ Row(contacts, id).linkedId = survivor
          /\ \A c \in Live(prev) :
               c.linkedId \in losers => Row(contacts, c.id).linkedId = survivor
          /\ Values(PrevGroups, "email") \subseteq Range(resp.contact.emails)
          /\ Values(PrevGroups, "phoneNumber") \subseteq Range(resp.contact.phoneNumbers)

\* Two groups were merged; the loser was older by id than one of the
\* survivor's rows and had a secondary of its own.
C7_Witness ==
  /\ Called /\ resp.ok
  /\ Cardinality(PrevRoots) = 2
  /\ \E c \in Live(prev) :
       /\ c.linkedId \in PrevRoots
       /\ c.linkedId # resp.contact.primaryContactId
       /\ Row(contacts, c.id).linkedId = resp.contact.primaryContactId

\* ---------------------------------------------------------------- C8
\* C8 (response content): in every payload emails[0] is the primary's email
\* when it has one and phoneNumbers[0] its phone when it has one; each list
\* holds every distinct present value of the group exactly once and no
\* absent entry.
C8_ResponseContent ==
  (Called /\ resp.ok) =>
    LET primary == Row(contacts, resp.contact.primaryContactId)
        emails == resp.contact.emails
        phoneNumbers == resp.contact.phoneNumbers
    IN /\ primary.email # NULL => (Len(emails) >= 1 /\ emails[1] = primary.email)
       /\ primary.phoneNumber # NULL =>
            (Len(phoneNumbers) >= 1 /\ phoneNumbers[1] = primary.phoneNumber)
       /\ Range(emails) = Values(PayloadGroup, "email")
       /\ Range(phoneNumbers) = Values(PayloadGroup, "phoneNumber")
       /\ NoDuplicates(emails)
       /\ NoDuplicates(phoneNumbers)

\* A payload for a group in which two rows repeat an email, one row has no
\* phone, and the primary has no email.
C8_Witness ==
  /\ Called /\ resp.ok
  /\ \E c \in PayloadGroup, d \in PayloadGroup :
       c.id # d.id /\ c.email # NULL /\ c.email = d.email
  /\ \E c \in PayloadGroup : c.phoneNumber = NULL
  /\ Len(resp.contact.emails) >= 1

\* ---------------------------------------------------------------- C9
\* The position of row c when rows are ordered by createdAt, ties by id.
Before(c, d) == c.createdAt < d.createdAt \/ (c.createdAt = d.createdAt /\ c.id < d.id)

\* The first occurrences of the present values of a field along rows.
RECURSIVE FirstOccurrences(_, _, _)
FirstOccurrences(seen, rows, field) ==
  IF rows = <<>> THEN seen
  ELSE LET v == Head(rows)[field]
       IN FirstOccurrences(IF v = NULL \/ v \in Range(seen) THEN seen ELSE Append(seen, v),
                           Tail(rows), field)

\* C9 (response ordering): secondaryContactIds lists the group's secondaries
\* in ascending createdAt, ties by ascending id; emails and phoneNumbers
\* follow first occurrence along the primary and then that traversal; the
\* same call on the same store returns the same payload.
C9_ResponseOrdering ==
  (Called /\ resp.ok) =>
    LET ids == resp.contact.secondaryContactIds
        rows == [i \in 1..Len(ids) |-> Row(contacts, ids[i])]
        primary == Row(contacts, resp.contact.primaryContactId)
    IN /\ \A i, j \in 1..Len(ids) : i < j => Before(rows[i], rows[j])
       /\ resp.contact.emails = FirstOccurrences(<<>>, <<primary>> \o rows, "email")
       /\ resp.contact.phoneNumbers = FirstOccurrences(<<>>, <<primary>> \o rows, "phoneNumber")
       /\ \A again \in identify(contacts, seqId, clock, req.email, req.phoneNumber) :
            again.resp = resp

\* ---------------------------------------------------------------- C10
\* C10 (consolidated view): after every successful identify the payload's
\* primaryContactId names a live primary of the table as committed,
\* secondaryContactIds is exactly the live rows linked to it, and every live
\* row holding the request's email or phone is that primary or one of them.
C10_ConsolidatedView ==
  (Called /\ resp.ok) =>
    LET id == resp.contact.primaryContactId
        secondaryIds == resp.contact.secondaryContactIds
    IN /\ \E c \in Live(contacts) : c.id = id /\ c.linkPrecedence = "primary"
       /\ Range(secondaryIds) = {c.id : c \in {d \in Live(contacts) : d.linkedId = id}}
       /\ NoDuplicates(secondaryIds)
       /\ \A c \in Live(contacts) :
            Matched(c) => (c.id = id \/ c.id \in Range(secondaryIds))

\* A request matched only secondaries, by one field, of a group of three.
C10_Witness ==
  /\ Called /\ resp.ok
  /\ Len(resp.contact.secondaryContactIds) = 2
  /\ \A c \in Live(contacts) : Matched(c) => c.linkPrecedence = "secondary"
  /\ \E c \in Live(contacts) : Matched(c)

\* ---------------------------------------------------------------- C17
\* C17 (inert input): when some live row of the matched group already has
\* the request's email and the request's phone, identify answers with the
\* group, inserts no row and changes no row.
C17_InertInput ==
  (Called /\ \E c \in PrevGroups : c.email = req.email /\ c.phoneNumber = req.phoneNumber) =>
    /\ resp.ok
    /\ contacts = prev
    /\ resp.contact.primaryContactId \in PrevRoots

\* The pair of the request was held by a secondary of a group of two or more.
C17_Witness ==
  /\ Called
  /\ req.email # NULL /\ req.phoneNumber # NULL
  /\ \E c \in PrevGroups :
       /\ c.email = req.email /\ c.phoneNumber = req.phoneNumber
       /\ c.linkPrecedence = "secondary"

\* ---------------------------------------------------------------- C18
\* C18 (both fields absent), as claimed: identify(NULL, NULL) on any store
\* throws, matches no row, merges no group and inserts no row.
C18_BothAbsent ==
  \A out \in identify(contacts, seqId, clock, NULL, NULL) :
    /\ ~out.resp.ok
    /\ out.contacts = contacts
    /\ out.seqId = seqId

\* ---------------------------------------------------------------- C20
\* No two live rows have the same (email, phone, linkedId) with all three
\* present (an absent component never equals anything).
C20_UniqueTriples ==
  \A c \in Live(contacts), d \in Live(contacts) :
    (/\ c.id # d.id
     /\ c.email # NULL /\ c.phoneNumber # NULL /\ c.linkedId # NoId) =>
      <<c.email, c.phoneNumber, c.linkedId>> # <<d.email, d.phoneNumber, d.linkedId>>

C11_CreationRace ==
  \A c \in Live(contacts), d \in Live(contacts) :
    (c.id # d.id /\ c.linkPrecedence = "primary" /\ d.linkPrecedence = "primary")
      => ~Shares(c, d)

\* A call that found no match on its snapshot lost the race: the primary
\* with its email and phone was committed by the other call meanwhile.
C11_Witness ==
  /\ call.pc = "done" /\ ~call.resp.ok
  /\ matchingContacts(call.snapshot, call.email, call.phoneNumber) = {}
  /\ \E c \in Live(contacts) :
       /\ c.id \notin Ids(call.snapshot)
       /\ c.linkPrecedence = "primary"
       /\ c.email = call.email /\ c.phoneNumber = call.phoneNumber

\* ---------------------------------------------------------------- C12
\* C12 (no duplicate rows under concurrency): whatever calls overlap, the
\* committed table never holds two live rows with the same email, the same
\* phoneNumber and the same linkedId (absent equal to absent), be they
\* primaries or secondaries.
C12_NoDuplicateRows ==
  \A c \in Live(contacts), d \in Live(contacts) :
    c.id # d.id =>
      <<c.email, c.phoneNumber, c.linkedId>> # <<d.email, d.phoneNumber, d.linkedId>>

\* A call about to attach its pair to a group was rejected by the unique
\* index: the other call had committed the same secondary meanwhile.
C12_Witness ==
  /\ call.pc # "idle"
  /\ Len(call.errors) >= 1 /\ call.errors[1] = P2002
  /\ \E c \in Live(contacts) :
       /\ c.linkPrecedence = "secondary"
       /\ c.email = call.email /\ c.phoneNumber = call.phoneNumber

\* ---------------------------------------------------------------- C13
\* C13 (serial equivalence): every commit of a call that overlapped another
\* leaves the table that running the call alone on the table it committed
\* into (the calls taken one at a time, in commit order) would leave; and
\* after every commit depth one, single primary and seniority hold.
C13_SerialEquivalence ==
  /\ [](C2_DepthOne /\ C1_SinglePrimaryAmended /\ C3_Seniority)
  /\ [][(call.pc = "running" /\ call'.pc = "done" /\ call'.resp.ok) =>
          \E o \in identify(contacts, seqId, clock, call.email, call.phoneNumber) :
             /\ o.resp.ok
             /\ o.contacts = contacts']_vars

\* The call in flight committed a row of its own into a table that holds a
\* row of another group, committed by another call after its snapshot.
C13_Witness ==
  /\ call.pc = "done" /\ call.resp.ok
  /\ LET mine == {call.resp.contact.primaryContactId}
                  \cup Range(call.resp.contact.secondaryContactIds)
         new == {c \in contacts : c.id \notin Ids(call.snapshot)}
     IN /\ \E c \in new : c.id \in mine
        /\ \E c \in new : c.id \notin mine

\* ---------------------------------------------------------------- C14
\* C14 (retry on unique conflict): when the first attempt of a call fails
\* with a unique violation, exactly one further attempt runs, in a fresh
\* transaction that reads the table anew; whatever the second attempt ends
\* in, the call is over, and an error of the second attempt reaches the
\* caller.
C14_RetryOnce ==
  [][call.pc = "running" =>
       /\ call.attempt \in {1, 2}
       /\ (call.attempt = 1 /\ call'.errors = <<P2002>>) =>
            /\ call'.pc = "running"
            /\ call'.attempt = 2
            /\ call'.snapshot = contacts'
            /\ call'.email = call.email /\ call'.phoneNumber = call.phoneNumber
       /\ (call.attempt = 2 /\ call' # call) =>
            /\ call'.pc = "done"
            /\ Len(call'.errors) = 2 =>
                 (~call'.resp.ok /\ call'.resp.error = call'.errors[2])]_vars

\* The second attempt failed too and the call ended in its error.
C14_Witness ==
  /\ call.pc = "done"
  /\ Len(call.errors) = 2
  /\ call.errors[1] = P2002
  /\ ~call.resp.ok

\* ---------------------------------------------------------------- C15
\* C15 (retry on serialization failure), as claimed: when the store aborts
\* the first attempt of a call with a serialization failure, the call runs
\* one more attempt in a fresh transaction.
C15_RetrySerialization ==
  [][(call.pc = "running" /\ call.attempt = 1
        /\ call'.errors = <<SerializationFailure>>) =>
       /\ call'.pc = "running"
       /\ call'.attempt = 2
       /\ call'.snapshot = contacts']_vars

\* ---------------------------------------------------------------- C16
\* C16 (failure atomicity): an attempt that fails, at whatever stage, leaves
\* the committed table as it was before the attempt.
C16_FailureAtomicity ==
  [][(call.pc = "running" /\ Len(call'.errors) > Len(call.errors)) =>
       contacts' = contacts]_vars

\* The call in flight had two primaries to merge on its snapshot, and its
\* transaction was aborted after the demotion.
C16_Witness ==
  /\ call.pc = "done" /\ ~call.resp.ok
  /\ Cardinality(primaryIds(matchingContacts(call.snapshot, call.email,
                                             call.phoneNumber))) = 2

\* ---------------------------------------------------------------- C19
\* C19 (validation at the boundary): a POST /identify whose body is empty,
\* has both fields null or absent, has a malformed email or has a phone with
\* disallowed characters is answered 400 "Validation failed"; identify is
\* not invoked and the table is left as it was.
C19_Invalid(body) ==
  \/ body.email.type \in {"undefined", "null"}
       /\ body.phoneNumber.type \in {"undefined", "null"}
  \/ body.email = JsonString("not-an-email")
  \/ body.phoneNumber = JsonString("abc$def")

C19_Validation ==
  [][(http = NoHttp /\ http' # NoHttp /\ C19_Invalid(http'.body)) =>
       /\ http'.status = 400
       /\ http'.error = "Validation failed"
       /\ req' = NoReq /\ resp' = NoResp
       /\ contacts' = contacts /\ seqId' = seqId]_vars

\* A body with a well-formed email and a phone with disallowed characters
\* was rejected while the table held that email.
C19_Witness ==
  /\ http # NoHttp
  /\ http.status = 400
  /\ http.body.phoneNumber = JsonString("abc$def")
  /\ \E c \in Live(contacts) : http.body.email = JsonString(c.email)

\* ---------------------------------------------------------------- C21
\* Row d is row c after a demotion: a primary made secondary, linkedId set.
Demoted(c, d) ==
  /\ c.linkPrecedence = "primary" /\ c.linkedId = NoId
  /\ d.linkPrecedence = "secondary" /\ d.linkedId # NoId

\* Row d is row c after a re-parenting: a secondary whose linkedId changed.
Reparented(c, d) ==
  /\ c.linkPrecedence = "secondary" /\ d.linkPrecedence = "secondary"
  /\ d.linkedId # c.linkedId /\ d.linkedId # NoId

\* C21 (immutability and retention): no step of an identify call changes
\* the id, email, phone, createdAt or deletedAt of an existing row and none
\* removes a row; an existing row changes only by a demotion or by a
\* re-parenting, so the set of ids only grows.
C21_Immutability ==
  [][\A c \in contacts :
       \E d \in contacts' :
         /\ d.id = c.id
         /\ d.email = c.email
         /\ d.phoneNumber = c.phoneNumber
         /\ d.createdAt = c.createdAt
         /\ d.deletedAt = c.deletedAt
         /\ d = c \/ Demoted(c, d) \/ Reparented(c, d)]_vars

\* A call has merged two groups: of the rows it read, one was demoted and
\* another re-parented.
C21_Witness ==
  /\ call.pc = "done" /\ call.resp.ok
  /\ \E c \in call.snapshot, k \in call.snapshot :
       /\ Demoted(c, Row(contacts, c.id))
       /\ Reparented(k, Row(contacts, k.id))

\* ---------------------------------------------------------------- C22
\* The table the last call found is the one the cascade has built before
\* its last request: rows 1, 2, 3 created as (a,111), (b,222), (c,333), the
\* groups of rows 1 and 2 merged by identify(a,222), row 3 still a primary.
CascadeBeforeLast ==
  /\ Ids(prev) = {1, 2, 3} /\ Cardinality(prev) = 3
  /\ Row(prev, 1).email = "a" /\ Row(prev, 1).phoneNumber = "111"
  /\ Row(prev, 2).email = "b" /\ Row(prev, 2).phoneNumber = "222"
  /\ Row(prev, 3).email = "c" /\ Row(prev, 3).phoneNumber = "333"
  /\ Row(prev, 3).linkPrecedence = "primary"
  /\ \/ Row(prev, 2).linkedId = 1
     \/ Row(prev, 1).linkedId = 2

\* C22 (triangular cascade): after (a,111), (b,222), (c,333), identify(a,222)
\* and then identify(c,111), the store holds exactly three live rows, row 1
\* is the one primary, the two others are secondaries linked to it, and the
\* last payload's emails contain a, b, c and its phones 111, 222, 333.
C22_Cascade ==
  (/\ Called /\ resp.ok
   /\ req = [email |-> "c", phoneNumber |-> "111"]
   /\ CascadeBeforeLast) =>
    /\ Cardinality(Live(contacts)) = 3
    /\ {c.id : c \in {c \in Live(contacts) : c.linkPrecedence = "primary"}} = {1}
    /\ \A c \in Live(contacts) :
         c.id # 1 => c.linkPrecedence = "secondary" /\ c.linkedId = 1
    /\ {"a", "b", "c"} \subseteq Range(resp.contact.emails)
    /\ {"111", "222", "333"} \subseteq Range(resp.contact.phoneNumbers)

\* The same, when the three customers were created at three instants.
C22_CascadeDistinctInstants ==
  (/\ Called /\ resp.ok
   /\ req = [email |-> "c", phoneNumber |-> "111"]
   /\ CascadeBeforeLast
   /\ Cardinality({c.createdAt : c \in prev}) = 3) =>
    /\ Cardinality(Live(contacts)) = 3
    /\ {c.id : c \in {c \in Live(contacts) : c.linkPrecedence = "primary"}} = {1}
    /\ \A c \in Live(contacts) :
         c.id # 1 => c.linkPrecedence = "secondary" /\ c.linkedId = 1
    /\ {"a", "b", "c"} \subseteq Range(resp.contact.emails)
    /\ {"111", "222", "333"} \subseteq Range(resp.contact.phoneNumbers)

\* ---------------------------------------------------------------- C23
\* C23 (seniority tie-break): of matched primaries with the same createdAt
\* the one with the lowest id survives a merge, so in every group the
\* primary has the lowest id among the rows sharing its createdAt.
C23_TieBreak ==
  /\ \A c \in Live(contacts), p \in Live(contacts) :
       (/\ c.linkPrecedence = "secondary"
        /\ p.id = c.linkedId
        /\ p.createdAt = c.createdAt) => p.id < c.id
  /\ (Called /\ resp.ok /\ Cardinality(PrevRoots) >= 2) =>
       \A l \in Live(prev) :
         (/\ l.id \in PrevRoots
          /\ l.createdAt = Row(prev, resp.contact.primaryContactId).createdAt)
           => resp.contact.primaryContactId <= l.id

\* ---------------------------------------------------------------- C24
\* The survivor's group as the last call re-read it: after the merge,
\* before the insert.
RereadGroup == PayloadGroup \ Inserted

\* C24 (attach decision): a call that found a match inserts a secondary if
\* and only if its email is present and held by no row of the re-read group
\* or its phone is present and held by no row of that group; the row it
\* inserts carries the request's values and is linked to the survivor.  A
\* call that inserts nothing returns the whole group.
C24_AttachDecision ==
  (Called /\ resp.ok /\ PrevMatches # {}) =>
    LET newEmail == req.email # NULL /\ req.email \notin Values(RereadGroup, "email")
        newPhone == req.phoneNumber # NULL
                      /\ req.phoneNumber \notin Values(RereadGroup, "phoneNumber")
    IN /\ (Inserted # {}) <=> (newEmail \/ newPhone)
       /\ \A c \in Inserted :
            /\ Inserted = {c}
            /\ c.linkPrecedence = "secondary"
            /\ c.linkedId = resp.contact.primaryContactId
            /\ c.email = req.email /\ c.phoneNumber = req.phoneNumber
       /\ Range(resp.contact.secondaryContactIds)
            = Ids(PayloadGroup) \ {resp.contact.primaryContactId}

\* A request with the email absent and a known phone got the whole group,
\* an email of a row it did not match included, and inserted nothing.
C24_Witness ==
  /\ Called /\ resp.ok
  /\ req.email = NULL
  /\ PrevMatches # {}
  /\ Inserted = {}
  /\ \E c \in PayloadGroup :
       /\ c \notin PrevMatches
       /\ c.email # NULL /\ Includes(resp.contact.emails, c.email)

\* ---------------------------------------------------------------- C25
\* A live secondary the last request matched whose linkedId names no live
\* row of the table the call found.
DanglingMatches ==
  {c \in PrevMatches : c.linkPrecedence = "secondary" /\ c.linkedId \notin Ids(Live(prev))}

\* C25 (dangling link): a call that matches a secondary whose primary is
\* missing from the live store fails with an internal error and writes
\* nothing, also when other matched rows resolve to primaries that exist.
C25_DanglingLink ==
  (Called /\ DanglingMatches # {}) =>
    /\ ~resp.ok
    /\ resp.error = TypeError
    /\ contacts = prev

\* The same, for a call none of whose matched rows resolves to a live
\* primary.
C25_AllDangling ==
  (Called /\ DanglingMatches # {} /\ PrevRoots \cap Ids(Live(prev)) = {}) =>
    /\ ~resp.ok
    /\ resp.error = TypeError
    /\ contacts = prev

\* ---------------------------------------------------------------- C26
\* Every enumeration of a set of rows.
RECURSIVE Orders(_)
Orders(S) ==
  IF S = {} THEN {<<>>}
  ELSE UNION {{<<c>> \o s : s \in Orders(S \ {c})} : c \in S}

\* Depth one on table cs: every live secondary names a live primary.
DepthOneIn(cs) ==
  \A c \in Live(cs) :
    c.linkPrecedence = "secondary" =>
      \E d \in Live(cs) : d.id = c.linkedId /\ d.linkPrecedence = "primary"

\* C26 (merge order independence): whatever request comes next, if it
\* matches a survivor and two or more losers, then processing the losers in
\* any order (each step: demote, then re-parent the children) ends in the
\* table the code's order ends in, and depth one holds after each step.
C26_MergeOrder ==
  \A email \in {NULL} \cup {c.email : c \in contacts},
     phoneNumber \in {NULL} \cup {c.phoneNumber : c \in contacts} :
    LET matching == matchingContacts(contacts, email, phoneNumber)
        tx == [contacts |-> contacts, seqId |-> seqId, error |-> NoError]
    IN \A primaries \in orderByCreatedAt(primaryRows(contacts, primaryIds(matching))) :
         Len(primaries) >= 3 =>
           LET rootPrimary == rootPrimaryOf(primaries)
               final == mergeLoop(tx, primaries, rootPrimary, 2)
           IN \A losers \in Orders(Range(Tail(primaries))) :
                \A k \in 1..Len(primaries) :
                  LET step == mergeLoop(tx, SubSeq(<<rootPrimary>> \o losers, 1, k),
                                        rootPrimary, 2)
                  IN /\ step.error = NoError
                     /\ DepthOneIn(step.contacts)
                     /\ k = Len(primaries) => step.contacts = final.contacts

\* A call has merged three groups, demoting two primaries of which one had
\* a child, which it re-parented.
C26_Witness ==
  /\ resp.ok
  /\ \E c \in prev, d \in prev, k \in prev :
       /\ c.id # d.id
       /\ Demoted(c, Row(contacts, c.id))
       /\ Demoted(d, Row(contacts, d.id))
       /\ k.linkedId = c.id
       /\ Reparented(k, Row(contacts, k.id))

\* ---------------------------------------------------------------- C27
\* C27 (no merge inside one group): when every row the request matched
\* resolves to the same root, the call demotes nothing and re-parents
\* nothing: every row of the table it found is in the table it leaves.
C27_NoMergeInGroup ==
  (Called /\ Cardinality(PrevRoots) = 1) => prev \subseteq contacts

\* A request matched a primary and a secondary pointing at it, and the call
\* attached a new row to their group.
C27_Witness ==
  /\ Called /\ resp.ok
  /\ Cardinality(PrevRoots) = 1
  /\ Inserted # {}
  /\ \E p \in PrevMatches, s \in PrevMatches :
       p.linkPrecedence = "primary" /\ s.linkedId = p.id

\* ---------------------------------------------------------------- C28
\* C28 (soft-deleted rows): a row with deletedAt set is never a match (a
\* request whose values only such rows hold creates a primary), gives no
\* id and no value to a payload (the payload's ids are live rows, its
\* values are held by live rows of the group) and is never modified: its
\* linkedId stays when the primary it names is demoted.
C28_SoftDeleted ==
  Called =>
    /\ \A c \in prev \ Live(prev) : c \in contacts
    /\ (resp.ok /\ PrevMatches = {}) =>
         \E c \in Inserted : /\ Inserted = {c}
                             /\ c.linkPrecedence = "primary"
                             /\ resp.contact.primaryContactId = c.id
    /\ resp.ok =>
         /\ resp.contact.primaryContactId \in Ids(Live(contacts))
         /\ Range(resp.contact.secondaryContactIds) \subseteq Ids(PayloadGroup)
         /\ Range(resp.contact.emails) \subseteq Values(PayloadGroup, "email")
         /\ Range(resp.contact.phoneNumbers) \subseteq Values(PayloadGroup, "phoneNumber")

\* A merge has demoted a primary that a soft-deleted secondary names, and
\* the payload leaves out a value only that soft-deleted row holds.
C28_Witness ==
  /\ Called /\ resp.ok
  /\ \E k \in contacts \ Live(contacts), l \in prev :
       /\ k.linkedId = l.id
       /\ Demoted(l, Row(contacts, l.id))
       /\ k.email # NULL
       /\ k.email \notin Values(Live(contacts), "email")
       /\ ~Includes(resp.contact.emails, k.email)

\* A request whose email only a soft-deleted row holds created a primary.
C28_WitnessNoMatch ==
  /\ Called /\ resp.ok
  /\ PrevMatches = {}
  /\ \E k \in prev \ Live(prev) : k.email = req.email /\ req.email # NULL

\* ---------------------------------------------------------------- C29
\* The error kinds a retry is meant for.
RetryableKinds == {P2002, SerializationFailure}

\* C29 (bounded attempts): a call starts at most two transactions and ends
\* in a payload or in an error; the second transaction starts only after
\* the first failed with a retryable error; an error of any other kind
\* ends the call after the first attempt.
C29_BoundedAttempts ==
  /\ [](call.pc # "idle" => call.attempt \in {1, 2})
  /\ [](call.pc = "done" => (call.resp.ok \/ call.resp.error # NoError))
  /\ [][(call.pc = "running" /\ call' # call) =>
          \/ call'.pc = "done"
          \/ /\ call'.pc = "running"
             /\ call.attempt = 1 /\ call'.attempt = 2
             /\ Len(call'.errors) = 1
             /\ call'.errors[1] \in RetryableKinds]_vars
  /\ [][(/\ call.pc = "running"
         /\ Len(call'.errors) > Len(call.errors)
         /\ call'.errors[Len(call'.errors)] \notin RetryableKinds) =>
          /\ call'.pc = "done"
          /\ call'.attempt = call.attempt
          /\ ~call'.resp.ok
          /\ call'.resp.error = call'.errors[Len(call'.errors)]]_vars

\* A call matched a secondary whose primary is soft-deleted and ended in
\* the internal error of its first attempt.
C29_Witness ==
  /\ call.pc = "done"
  /\ call.attempt = 1
  /\ call.errors = <<TypeError>>
  /\ ~call.resp.ok

\* ---------------------------------------------------------------- C30
\* The rows that hold the pair of the call in flight as a secondary.
Winners ==
  {w \in Live(contacts) : /\ w.email = call.email
                          /\ w.phoneNumber = call.phoneNumber
                          /\ w.linkPrecedence = "secondary"}

\* C30 (retry observes the winner): when the attach of a call hits the
\* unique constraint because an overlapping call committed the same
\* secondary, the call retries on a fresh snapshot; the retry, with no
\* further commit in its way, inserts nothing and returns a payload that
\* has the committed row's id among the secondaries and its values in the
\* lists.
C30_RetryObservesWinner ==
  /\ [][(call.pc = "running" /\ call.attempt = 1 /\ call'.errors = <<P2002>>) =>
          /\ call'.pc = "running"
          /\ call'.snapshot = contacts'
          /\ Winners # {}]_vars
  /\ [][(/\ call.pc = "running" /\ call.attempt = 2
         /\ call.errors = <<P2002>>
         /\ call.snapshot = contacts
         /\ call' # call) =>
          /\ call'.pc = "done"
          /\ call'.resp.ok
          /\ contacts' = contacts
          /\ seqId' = seqId
          /\ \A w \in Winners :
               /\ Includes(call'.resp.contact.secondaryContactIds, w.id)
               /\ Includes(call'.resp.contact.emails, w.email)
               /\ Includes(call'.resp.contact.phoneNumbers, w.phoneNumber)]_vars

\* The retry of a call whose attach was rejected has returned a payload that
\* lists the row the other call committed.
C30_Witness ==
  /\ call.pc = "done" /\ call.resp.ok
  /\ call.errors = <<P2002>>
  /\ \E w \in Winners :
       /\ w \notin call.snapshot
       /\ Includes(call.resp.contact.secondaryContactIds, w.id)

\* ---------------------------------------------------------------- C32
\* C32 (precedence and link agree): in every state reached by successful
\* calls a live row is a primary if and only if its linkedId is absent, and
\* a secondary if and only if its linkedId is present.
C32_PrecedenceAndLink ==
  \A c \in Live(contacts) :
    /\ c.linkPrecedence \in {"primary", "secondary"}
    /\ (c.linkPrecedence = "primary") <=> (c.linkedId = NoId)
    /\ (c.linkPrecedence = "secondary") <=> (c.linkedId # NoId)

\* A call has demoted a primary and another call has inserted a secondary;
\* a primary is left.
C32_Witness ==
  /\ Called /\ resp.ok
  /\ \E l \in prev : Row(contacts, l.id).linkPrecedence # l.linkPrecedence
  /\ \E c \in Live(contacts), d \in Live(contacts) :
       /\ c.linkPrecedence = "primary"
       /\ d.linkPrecedence = "secondary" /\ d.createdAt > c.createdAt

\* ---------------------------------------------------------------- C33
\* The exact-duplicate test with an absent field equal to an absent field
\* only: some row of the group holds exactly the request's pair.
SamePairInGroup(email, phoneNumber, allLinked) ==
  \E c \in Range(allLinked) : c.email = email /\ c.phoneNumber = phoneNumber

\* C33 (the exact-duplicate check never changes the attach decision):
\* whatever request comes next, when it carries an email or a phone that
\* the re-read group does not hold, no row of the group is an exact
\* duplicate, under the code's test and under the absent-equals-absent
\* test alike; so the decision is the same with either test, and the same
\* without any.
C33_DuplicateCheckInert ==
  \A email \in {NULL} \cup Range(EmailList), phoneNumber \in {NULL} \cup Range(PhoneList) :
    LET matching == matchingContacts(contacts, email, phoneNumber)
        tx == [contacts |-> contacts, seqId |-> seqId, error |-> NoError]
    IN \A primaries \in orderByCreatedAt(primaryRows(contacts, primaryIds(matching))) :
         (matching # {} /\ Len(primaries) > 0) =>
           LET rootPrimary == rootPrimaryOf(primaries)
               tx1 == mergeLoop(tx, primaries, rootPrimary, 2)
           IN \A allLinked \in orderByCreatedAt(groupRows(tx1.contacts, rootPrimary)) :
                LET new == hasNewEmail(email, allLinked) \/ hasNewPhone(phoneNumber, allLinked)
                IN /\ new => ~exactDuplicate(email, phoneNumber, allLinked)
                   /\ new => ~SamePairInGroup(email, phoneNumber, allLinked)
                   /\ (new /\ ~exactDuplicate(email, phoneNumber, allLinked))
                        <=> (new /\ ~SamePairInGroup(email, phoneNumber, allLinked))

\* A request with the email absent and a known phone: the code's test finds
\* an exact duplicate in the group, the absent-equals-absent test finds
\* none, and the call inserted nothing.
C33_Witness ==
  /\ Called /\ resp.ok
  /\ req.email = NULL
  /\ Inserted = {}
  /\ \E allLinked \in orderByCreatedAt(PayloadGroup) :
       /\ exactDuplicate(req.email, req.phoneNumber, allLinked)
       /\ ~SamePairInGroup(req.email, req.phoneNumber, allLinked)

\* A request with both fields present, one of them new to the group, was
\* attached.
C33_WitnessAttach ==
  /\ Called /\ resp.ok
  /\ PrevMatches # {}
  /\ Inserted # {}

\* ---------------------------------------------------------------- C34
\* The root of live row c: itself when a primary, else the row it names.
RootId(c) == IF c.linkPrecedence = "primary" THEN c.id ELSE c.linkedId

\* C34 (no repeated observation): after any sequence of successful
\* sequential calls from the empty store, no two live rows hold the same
\* (email, phone) pair, absent equal to absent, and two live rows that
\* share an email or a phone have the same root primary.
C34_NoRepeatedObservation ==
  \A c \in Live(contacts), d \in Live(contacts) :
    c.id # d.id =>
      /\ <<c.email, c.phoneNumber>> # <<d.email, d.phoneNumber>>
      /\ Shares(c, d) =>
           /\ RootId(c) = RootId(d)
           /\ \E p \in Live(contacts) :
                p.id = RootId(c) /\ p.linkPrecedence = "primary"

\* A repeated request was answered without an insert, in a table where a
\* merge has put rows sharing a value under one root.
C34_Witness ==
  /\ Called /\ resp.ok
  /\ Inserted = {}
  /\ \E c \in Live(contacts) :
       c.email = req.email /\ c.phoneNumber = req.phoneNumber
  /\ \E c \in Live(contacts), d \in Live(contacts) :
       /\ c.id # d.id /\ Shares(c, d)
       /\ c.linkPrecedence = "secondary" /\ d.linkPrecedence = "secondary"
       /\ c.createdAt >= d.createdAt

\* ---------------------------------------------------------------- C35
\* C35 (at most one insert per call): a successful call adds no row or one
\* row; with no live match it adds one, a primary; with a match the row it
\* adds, if any, is a secondary linked to the survivor; a call that merges
\* two groups adds none.
C35_AtMostOneInsert ==
  (Called /\ resp.ok) =>
    /\ Cardinality(contacts) - Cardinality(prev) = Cardinality(Inserted)
    /\ Cardinality(Inserted) <= 1
    /\ PrevMatches = {} => Cardinality(Inserted) = 1
    /\ \A c \in Inserted :
         /\ (c.linkPrecedence = "primary") <=> (PrevMatches = {})
         /\ PrevMatches = {} => c.linkedId = NoId
         /\ PrevMatches # {} =>
              /\ c.linkPrecedence = "secondary"
              /\ c.linkedId = resp.contact.primaryContactId
              /\ \E p \in Live(contacts) :
                   p.id = c.linkedId /\ p.linkPrecedence = "primary"
    /\ Cardinality(PrevRoots) >= 2 => Inserted = {}

\* One call has merged two groups without adding a row, after calls that
\* added a primary and a secondary.
C35_Witness ==
  /\ Called /\ resp.ok
  /\ Cardinality(PrevRoots) = 2
  /\ Inserted = {}
  /\ Cardinality(contacts) = 3

\* ---------------------------------------------------------------- C31
\* The call in flight and the call that committed after its snapshot
\* commute: the other call wrote rows, and none of them is a row the call
\* in flight reads (it matches none of them and none is in a group it
\* matches), on its snapshot or on the table as it is now.
Commuting ==
  /\ call.snapshot # contacts
  /\ readsOf(contacts, call.email, call.phoneNumber)
       = readsOf(call.snapshot, call.email, call.phoneNumber)
  /\ readsOf(contacts, call.email, call.phoneNumber)
       \cap (contacts \ call.snapshot) = {}

\* The call in flight ends as its sequential run on its snapshot ends: the
\* same payload, the same writes (the new row with the id now due).
EndsAsAlone ==
  \E o \in identify(call.snapshot, seqId, clock, call.email, call.phoneNumber) :
    /\ o.resp.ok
    /\ call'.resp = o.resp
    /\ contacts' = applyWrites(contacts, o.contacts \ call.snapshot)

\* C31 (commuting requests), as claimed: two calls that share no email and
\* no phone and match disjoint groups, run concurrently, leave the graph
\* and return the payloads that either sequential order gives (up to the
\* new ids).
C31_Commuting ==
  [][(call.pc = "running" /\ call.attempt = 1 /\ Commuting /\ call' # call) =>
       /\ call'.pc = "done"
       /\ call'.resp.ok
       /\ EndsAsAlone]_vars

\* The same for the runs in which the store commits the later call.
C31_CommutingWhenCommitted ==
  [][(/\ call.pc = "running" /\ call.attempt = 1 /\ Commuting /\ call' # call
      /\ call'.resp.ok) =>
       /\ call'.pc = "done"
       /\ EndsAsAlone]_vars

\* --------------------------------------------------------------- C36
\* The values of a payload of the current identify and of one of the older
\* identify are equal, the primary id read under either field name.
SameValues(new, old) ==
  /\ new.ok = old.ok
  /\ new.error = old.error
  /\ new.contact.primaryContactId = old.contact.primaryContatctId
  /\ new.contact.emails = old.contact.emails
  /\ new.contact.phoneNumbers = old.contact.phoneNumbers
  /\ new.contact.secondaryContactIds = old.contact.secondaryContactIds

\* The values of the id sequence from which the older identify, run on the
\* table before the call, ends in the state the call has ended in (one
\* transaction takes one id at most).
OldStarts ==
  {sid \in {seqId - 1, seqId} \cap (1..(MaxIds + 1)) :
     [contacts |-> contacts, seqId |-> seqId, resp |-> resp]
       \in identifyOld(prev, sid, clock, req.email, req.phoneNumber)}

\* The two implementations end one call, begun on the same table and the
\* same id sequence, in the same table with payloads of equal values; same
\* says what is required of the two id sequences after the call.
AgreeFrom(sid, same(_, _, _)) ==
  LET new == identify(prev, sid, clock, req.email, req.phoneNumber)
      old == identifyOld(prev, sid, clock, req.email, req.phoneNumber)
      Agree(n, o) == /\ n.contacts = o.contacts
                     /\ SameValues(n.resp, o.resp)
                     /\ same(sid, n, o)
  IN /\ \A n \in new : \E o \in old : Agree(n, o)
     /\ \A o \in old : \E n \in new : Agree(n, o)

SameSequence(sid, n, o) == n.seqId = o.seqId

\* Where the unique index rejected a write the current identify, having run
\* the transaction twice, has taken twice the ids the older one has taken;
\* everywhere else the two have taken the same ids.
SequenceButForRetry(sid, n, o) ==
  n.seqId = IF o.resp.error = P2002 THEN o.seqId + (o.seqId - sid) ELSE o.seqId

\* C36: run one call at a time from the same store state (the table and the
\* id sequence the next row is named from), the older identify and the
\* current identify make the same row changes, leave the same store state
\* and return payloads of equal values under the two field names.
C36_SequentialAgreement ==
  Called => \A sid \in OldStarts : AgreeFrom(sid, SameSequence)

\* C36, amended: the two make the same row changes and return payloads of
\* equal values; they leave the same id sequence unless the unique index
\* rejects a write (a soft-deleted row holds the triple), where both throw
\* P2002 and write nothing but the current identify, having run a second
\* transaction, has taken twice the ids the older one has taken (two for
\* one where the rejected write is the insert).
C36_SequentialAgreementAmended ==
  Called => \A sid \in OldStarts : AgreeFrom(sid, SequenceButForRetry)

\* The older identify has been rejected by the unique index: the current
\* one would have retried.
C36_Witness ==
  /\ Called
  /\ \E sid \in OldStarts : seqId = sid + 1
  /\ resp.error = P2002
  /\ contacts = prev

\* The older identify has merged two primaries.
C36_WitnessMerge ==
  /\ Called
  /\ OldStarts # {}
  /\ resp.ok
  /\ \E c \in prev, d \in contacts : c.id = d.id /\ Demoted(c, d)

====
